---- MODULE Spec2Model ----
(* A model of src/structure.py: FileSelectorApp, its selection state        *)
(* (file_states), the two displays (tree / git listbox), combine_files and  *)
(* export_selected_tree with the tree-string renderer.                      *)
(*                                                                          *)
(* Text is modelled as a sequence of characters, each character a one-      *)
(* element string; the box-drawing and checkbox characters are written by   *)
(* their code points ("u251C" is U+251C).  A path is the sequence of its    *)
(* segments: <<"P","d","e">> is /P/d/e.                                     *)
EXTENDS Integers, Sequences, FiniteSets, TLC

VARIABLES file_states, selection_mode, git_mode, current_dir, git_repo,
          tree, serial, listbox, curselection, fs, dialog, err, loads, toggles

vars == <<file_states, selection_mode, git_mode, current_dir, git_repo,
          tree, serial, listbox, curselection, fs, dialog, err, loads, toggles>>

-----------------------------------------------------------------------------
(* Bounds *)

\* number of directories loaded and of Git Mode switches explored
MaxLoads == 1
MaxToggles == 1

\* size, in characters, of the text layer's write buffer of an open file
BufSize == 12

-----------------------------------------------------------------------------
(* Characters and strings *)

EMPTY_CHECKBOX_CHAR == "u2B1C"
CHECKED_CHAR == "u2714"
BoxVR == "u251C"
BoxH == "u2500"
BoxV == "u2502"
BoxUR == "u2514"
SP == " "
LF == "\n"

BranchLast == <<BoxUR, BoxH, BoxH, SP>>
BranchMid == <<BoxVR, BoxH, BoxH, SP>>
PrefixLast == <<SP, SP, SP, SP>>
PrefixMid == <<BoxV, SP, SP, SP>>

output_file_name == "combined_code.txt"
outout_file_name == "directory_tree.txt"

\* the characters of a file or directory name
Chars(name) ==
  CASE name = output_file_name ->
         <<"c","o","m","b","i","n","e","d","_","c","o","d","e",".","t","x","t">>
    [] name = outout_file_name ->
         <<"d","i","r","e","c","t","o","r","y","_","t","r","e","e",".","t","x","t">>
    [] name = ".." -> <<".", ".">>
    [] OTHER -> <<name>>

\* code point of a character that occurs in a name
CharCode(c) ==
  CASE c = "." -> 46 [] c = "P" -> 80 [] c = "W" -> 87 [] c = "_" -> 95
    [] c = "a" -> 97 [] c = "b" -> 98 [] c = "c" -> 99 [] c = "d" -> 100
    [] c = "e" -> 101 [] c = "g" -> 103 [] c = "i" -> 105 [] c = "m" -> 109
    [] c = "n" -> 110 [] c = "o" -> 111 [] c = "r" -> 114 [] c = "t" -> 116
    [] c = "u" -> 117 [] c = "x" -> 120 [] c = "y" -> 121

\* Python's str < str: lexicographic by code point
RECURSIVE StrLess(_, _)
StrLess(s, t) ==
  IF t = <<>> THEN FALSE
  ELSE IF s = <<>> THEN TRUE
  ELSE IF Head(s) = Head(t) THEN StrLess(Tail(s), Tail(t))
  ELSE CharCode(Head(s)) < CharCode(Head(t))

\* sorted(names)
RECURSIVE sorted(_)
sorted(S) ==
  IF S = {} THEN <<>>
  ELSE LET m == CHOOSE x \in S : \A y \in S \ {x} : StrLess(Chars(x), Chars(y))
       IN <<m>> \o sorted(S \ {m})

\* sep.join(lines)
RECURSIVE Join(_, _)
Join(sep, lines) ==
  IF lines = <<>> THEN <<>>
  ELSE IF Len(lines) = 1 THEN lines[1]
  ELSE lines[1] \o <<sep>> \o Join(sep, Tail(lines))

\* the string of a path: "/" + segment for each segment
RECURSIVE PathStr(_)
PathStr(p) ==
  IF p = <<>> THEN <<>> ELSE <<"/">> \o Chars(Head(p)) \o PathStr(Tail(p))

IsPrefix(p, q) == Len(p) <= Len(q) /\ SubSeq(q, 1, Len(p)) = p

-----------------------------------------------------------------------------
(* The file system *)

\* the process's working directory (os.getcwd()), where output files go
Cwd == <<"W">>

Dirs == {<<"W">>, <<"P">>, <<"P", "d">>, <<"P", "d", "e">>}

OutputCombined == Cwd \o <<output_file_name>>
OutputTree == Cwd \o <<outout_file_name>>

FilePaths == {<<"W", "a">>, <<"P", "d", "e", "c">>, <<"P", "u">>,
              OutputCombined, OutputTree}

\* the directories the directory picker can return
Folders == {<<"W">>, <<"P">>}

\* roots of git working trees, and the index (git ls-files) of each
RepoRoots == {<<"W">>}
ls_files(root) == IF root = <<"W">> THEN << <<"a">>, <<"g">> >> ELSE <<>>

NoFile == [exists |-> FALSE, text |-> <<>>, utf8 |-> TRUE]
TextFile(t) == [exists |-> TRUE, text |-> t, utf8 |-> TRUE]
BinaryFile == [exists |-> TRUE, text |-> <<>>, utf8 |-> FALSE]

InitFs ==
  [p \in FilePaths |->
     CASE p = <<"W", "a">> -> TextFile(<<"x">>)
       [] p = <<"P", "d", "e", "c">> -> TextFile(<<"y", LF>>)
       [] p = <<"P", "u">> -> BinaryFile
       [] OTHER -> NoFile]

isdir(p) == p \in Dirs
isfile(p) == p \in FilePaths /\ fs[p].exists
exists(p) == isdir(p) \/ isfile(p)

listdir(dir) ==
  {p[Len(p)] : p \in {q \in Dirs \cup FilePaths :
                        /\ Len(q) = Len(dir) + 1
                        /\ IsPrefix(dir, q)
                        /\ exists(q)}}

-----------------------------------------------------------------------------
(* file_states: a dict, kept as the sequence of its items in insertion order *)

DictKeys(d) == {d[i].key : i \in 1..Len(d)}
DictHas(d, k) == \E i \in 1..Len(d) : d[i].key = k
DictGet(d, k) == d[CHOOSE i \in 1..Len(d) : d[i].key = k].selected

\* d[k] = v: an existing key keeps its position, a new key goes last
DictSet(d, k, v) ==
  IF DictHas(d, k)
  THEN [i \in 1..Len(d) |-> IF d[i].key = k THEN [key |-> k, selected |-> v]
                                             ELSE d[i]]
  ELSE Append(d, [key |-> k, selected |-> v])

-----------------------------------------------------------------------------
(* Repository discovery *)

NoRepo == [found |-> FALSE, working_tree_dir |-> <<>>]

\* git.Repo(dir, search_parent_directories=True); InvalidGitRepositoryError
\* is caught and leaves None
Repo(dir) ==
  LET ks == {k \in 1..Len(dir) : SubSeq(dir, 1, k) \in RepoRoots}
  IN IF ks = {} THEN NoRepo
     ELSE LET k == CHOOSE x \in ks : \A y \in ks : y <= x
          IN [found |-> TRUE, working_tree_dir |-> SubSeq(dir, 1, k)]

-----------------------------------------------------------------------------
(* The tree view: node id -> item.  Ids come from a serial number that the  *)
(* widget never resets, so the id of a deleted item is never issued again.  *)
(* parent = 0 is the root item "".                                          *)

NoTree == [n \in {} |-> 0]

RECURSIVE SortIds(_)
SortIds(S) ==
  IF S = {} THEN <<>>
  ELSE LET m == CHOOSE x \in S : \A y \in S : x <= y
       IN <<m>> \o SortIds(S \ {m})

\* tree.get_children(parent), in display order
get_children(t, parent) ==
  SortIds({n \in DOMAIN t : t[n].parent = parent})

RECURSIVE populate_items(_, _, _, _)
populate_items(items, parent_dir, parent_node, st) ==
  IF items = <<>> THEN st
  ELSE LET item == Head(items)
           path == parent_dir \o <<item>>
           node == st.serial + 1
           st1 == [tree |-> st.tree @@
                            (node :> [text |-> item,
                                      checked |-> EMPTY_CHECKBOX_CHAR,
                                      path |-> path,
                                      parent |-> parent_node]),
                   file_states |-> DictSet(st.file_states, node, FALSE),
                   serial |-> node]
           st2 == IF isdir(path)
                  THEN populate_items(sorted(listdir(path)), path, node, st1)
                  ELSE st1
       IN populate_items(Tail(items), parent_dir, parent_node, st2)

populate_tree(parent_dir, parent_node, st) ==
  IF ~isdir(parent_dir) THEN st
  ELSE populate_items(sorted(listdir(parent_dir)), parent_dir, parent_node, st)

RECURSIVE populate_git_entries(_, _, _)
populate_git_entries(paths, repo_root, st) ==
  IF paths = <<>> THEN st
  ELSE LET file_path == Head(paths)
           full_path == repo_root \o file_path
           st1 == IF exists(full_path)
                  THEN [listbox |-> Append(st.listbox, file_path),
                        file_states |-> DictSet(st.file_states, file_path, FALSE)]
                  ELSE st
       IN populate_git_entries(Tail(paths), repo_root, st1)

\* populate_git_list without the early return: with no repository the
\* current directory stands in for the working tree
populate_git_list_no_guard(repo, fstates) ==
  LET root == IF repo.found THEN repo.working_tree_dir ELSE current_dir'
      names == sorted(listdir(root))
      paths == IF repo.found THEN ls_files(root)
               ELSE [i \in 1..Len(names) |-> <<names[i]>>]
  IN populate_git_entries(paths, root,
                          [listbox |-> <<>>, file_states |-> fstates])

populate_git_list(repo, fstates) ==
  IF ~repo.found THEN [listbox |-> <<>>, file_states |-> fstates]
  ELSE populate_git_entries(ls_files(repo.working_tree_dir),
                            repo.working_tree_dir,
                            [listbox |-> <<>>, file_states |-> fstates])

\* the display state after _refresh_display under the given mode, directory,
\* repository and selection state
refresh_display(gm, dir, repo, fstates) ==
  IF gm
  THEN LET g == populate_git_list(repo, fstates)
       IN [tree |-> tree, serial |-> serial,
           listbox |-> g.listbox, curselection |-> {},
           file_states |-> g.file_states]
  ELSE LET p == populate_tree(dir, 0, [tree |-> NoTree,
                                       file_states |-> fstates,
                                       serial |-> serial])
       IN [tree |-> p.tree, serial |-> p.serial,
           listbox |-> listbox, curselection |-> curselection,
           file_states |-> p.file_states]

-----------------------------------------------------------------------------
(* Toggling *)

RECURSIVE toggle_children_of(_, _, _)
RECURSIVE toggle_tree_children(_, _, _)

toggle_children_of(children, state, st) ==
  IF children = <<>> THEN st
  ELSE LET child == Head(children)
           st1 == [tree |-> [st.tree EXCEPT ![child].checked =
                               IF state THEN CHECKED_CHAR
                                        ELSE EMPTY_CHECKBOX_CHAR],
                   file_states |-> DictSet(st.file_states, child, state)]
       IN toggle_children_of(Tail(children), state,
                             toggle_tree_children(child, state, st1))

\* toggle_tree_children without the recursive call: the children only
toggle_tree_children_shallow(parent, state, st) ==
  LET children == get_children(st.tree, parent)
      inside(n) == \E i \in 1..Len(children) : children[i] = n
  IN [tree |-> [n \in DOMAIN st.tree |->
                  IF inside(n)
                  THEN [st.tree[n] EXCEPT !.checked =
                          IF state THEN CHECKED_CHAR ELSE EMPTY_CHECKBOX_CHAR]
                  ELSE st.tree[n]],
      file_states |-> [i \in 1..Len(st.file_states) |->
                         IF inside(st.file_states[i].key)
                         THEN [key |-> st.file_states[i].key,
                               selected |-> state]
                         ELSE st.file_states[i]]]

toggle_tree_children(parent, state, st) ==
  toggle_children_of(get_children(st.tree, parent), state, st)

toggle_tree_selection(item, st) ==
  LET state == ~DictGet(st.file_states, item)
      st1 == [tree |-> [st.tree EXCEPT ![item].checked =
                          IF state THEN CHECKED_CHAR ELSE EMPTY_CHECKBOX_CHAR],
              file_states |-> DictSet(st.file_states, item, state)]
  IN IF selection_mode THEN toggle_tree_children(item, state, st1) ELSE st1

-----------------------------------------------------------------------------
(* get_selected_files: [error, files]; files are paths *)

RECURSIVE selected_tree_files(_)
selected_tree_files(d) ==
  IF d = <<>> THEN [error |-> "none", files |-> <<>>]
  ELSE IF ~Head(d).selected THEN selected_tree_files(Tail(d))
  ELSE IF Head(d).key \notin DOMAIN tree
       THEN [error |-> "TclError", files |-> <<>>]
  ELSE LET rest == selected_tree_files(Tail(d))
           path == tree[Head(d).key].path
       IN IF rest.error # "none" THEN rest
          ELSE IF isfile(path)
               THEN [error |-> "none", files |-> <<path>> \o rest.files]
               ELSE rest

RECURSIVE selected_git_files(_, _)
selected_git_files(d, repo_root) ==
  IF d = <<>> THEN <<>>
  ELSE IF Head(d).selected /\ isfile(repo_root \o Head(d).key)
       THEN <<repo_root \o Head(d).key>> \o selected_git_files(Tail(d), repo_root)
       ELSE selected_git_files(Tail(d), repo_root)

get_selected_files ==
  IF git_mode
  THEN [error |-> "none",
        files |-> selected_git_files(file_states,
                     IF git_repo.found THEN git_repo.working_tree_dir
                                       ELSE current_dir)]
  ELSE selected_tree_files(file_states)

-----------------------------------------------------------------------------
(* combine_files: the output file is opened for writing (truncated), then   *)
(* for each file its header is written, the file is read and its text       *)
(* written.  Written text stays in the writer's buffer until the buffer     *)
(* holds BufSize characters or the file is closed; a read of the output     *)
(* file itself sees what has reached the disk.                              *)

\* open(output_file_name, "a"): the writer keeps what the file holds
open_a(old_text) == [disk |-> old_text, pending |-> <<>>]

\* open(output_file_name, "w"): the writer on a truncated file
open_w(old_text) == [disk |-> <<>>, pending |-> <<>>]

\* outfile.write(s)
write(out, s) ==
  LET p == out.pending \o s
  IN IF Len(p) >= BufSize THEN [disk |-> out.disk \o p, pending |-> <<>>]
                          ELSE [disk |-> out.disk, pending |-> p]

\* leaving the with block, normally or by an exception, closes the file
close(out) == out.disk \o out.pending

\* f"--- {file_path} ---\n"
Header(file_path) ==
  <<"-", "-", "-", SP>> \o PathStr(file_path) \o <<SP, "-", "-", "-", LF>>

\* open(file_path, "r", encoding="utf-8").read() while the writer is open
read(file_path, out) ==
  IF file_path = OutputCombined
  THEN [utf8 |-> TRUE, text |-> out.disk]
  ELSE [utf8 |-> fs[file_path].utf8, text |-> fs[file_path].text]

\* combine_loop with the file read before its header is written
RECURSIVE combine_loop_read_first(_, _)
combine_loop_read_first(files, out) ==
  IF files = <<>> THEN [error |-> "none", text |-> close(out)]
  ELSE LET r == read(Head(files), out)
       IN IF ~r.utf8
          THEN [error |-> "UnicodeDecodeError", text |-> close(out)]
          ELSE combine_loop_read_first(Tail(files),
                 write(write(out, Header(Head(files))),
                       r.text \o <<LF, LF>>))

RECURSIVE combine_loop(_, _)
combine_loop(files, out) ==
  IF files = <<>> THEN [error |-> "none", text |-> close(out)]
  ELSE LET o1 == write(out, Header(Head(files)))
           r == read(Head(files), o1)
       IN IF ~r.utf8
          THEN [error |-> "UnicodeDecodeError", text |-> close(o1)]
          ELSE combine_loop(Tail(files), write(o1, r.text \o <<LF, LF>>))

-----------------------------------------------------------------------------
(* _generate_tree_string.  The nested mapping tree_dict is kept as the set  *)
(* of its key paths: the keys of the mapping reached by the segments `at`   *)
(* are the last segments of the key paths one longer than `at`.             *)

RECURSIVE CommonLen(_, _)
CommonLen(p, q) ==
  IF p = <<>> \/ q = <<>> \/ Head(p) # Head(q) THEN 0
  ELSE 1 + CommonLen(Tail(p), Tail(q))

\* os.path.relpath(path, root_path).split(os.sep)
relpath_parts(path, root_path) ==
  LET c == CommonLen(path, root_path)
      ups == [i \in 1..(Len(root_path) - c) |-> ".."]
      rel == ups \o SubSeq(path, c + 1, Len(path))
  IN IF rel = <<>> THEN <<".">> ELSE rel

\* os.path.basename(root_path)
basename(p) == IF p = <<>> THEN <<>> ELSE Chars(p[Len(p)])

tree_dict(root_path, selected_paths) ==
  UNION {{SubSeq(relpath_parts(selected_paths[i], root_path), 1, k) :
            k \in 1..Len(relpath_parts(selected_paths[i], root_path))} :
         i \in 1..Len(selected_paths)}

keys(d, at) ==
  {q[Len(q)] : q \in {x \in d : Len(x) = Len(at) + 1 /\ IsPrefix(at, x)}}

\* lines.extend(x): one new element per element of x
extend(lines, x) == lines \o [k \in 1..Len(x) |-> <<x[k]>>]

RECURSIVE format_tree(_, _, _)
format_tree(d, at, prefix) ==
  LET items == sorted(keys(d, at))
      RECURSIVE loop(_, _)
      loop(i, lines) ==
        IF i > Len(items) THEN lines
        ELSE LET item == items[i]
                 is_last == (i = Len(items))
                 branch == IF is_last THEN BranchLast ELSE BranchMid
                 l1 == Append(lines, prefix \o branch \o Chars(item))
                 new_prefix == prefix \o (IF is_last THEN PrefixLast
                                                     ELSE PrefixMid)
                 l2 == IF keys(d, at \o <<item>>) # {}
                       THEN extend(l1, format_tree(d, at \o <<item>>,
                                                   new_prefix))
                       ELSE l1
             IN loop(i + 1, l2)
  IN Join(LF, loop(1, <<>>))

generate_tree_string(root_path, selected_paths) ==
  basename(root_path) \o <<"/", LF>>
    \o format_tree(tree_dict(root_path, selected_paths), <<>>, <<>>)

-----------------------------------------------------------------------------
(* The application *)

\* the message boxes: title and message
WarnCombine == "No Selection: Please select files to combine"
WarnExport == "No Selection: Please select items to export"
InfoCombine == "Success: Files combined into combined_code.txt"
InfoExport == "Success: Tree exported to directory_tree.txt"

\* __init__: the window starts in tree mode on the working directory
Init ==
  /\ fs = InitFs
  /\ selection_mode = TRUE
  /\ git_mode = FALSE
  /\ current_dir = Cwd
  /\ git_repo = Repo(Cwd)
  /\ listbox = <<>>
  /\ curselection = {}
  /\ LET p == populate_tree(Cwd, 0, [tree |-> NoTree, file_states |-> <<>>,
                                     serial |-> 0])
     IN /\ tree = p.tree
        /\ serial = p.serial
        /\ file_states = p.file_states
  /\ dialog = "none"
  /\ err = "none"
  /\ loads = 0
  /\ toggles = 0

\* load_directory; folder = <<>> is the cancelled dialog
load_directory(folder) ==
  /\ dialog' = "none"
  /\ err' = "none"
  /\ UNCHANGED <<selection_mode, git_mode, fs, toggles>>
  /\ IF folder = <<>>
     THEN UNCHANGED <<current_dir, git_repo, tree, serial, listbox,
                      curselection, file_states, loads>>
     ELSE /\ loads < MaxLoads
          /\ loads' = loads + 1
          /\ current_dir' = folder
          /\ git_repo' = Repo(folder)
          /\ LET r == refresh_display(git_mode, folder, Repo(folder),
                                      file_states)
             IN /\ tree' = r.tree
                /\ serial' = r.serial
                /\ listbox' = r.listbox
                /\ curselection' = r.curselection
                /\ file_states' = r.file_states

\* the Git Mode checkbutton: flips git_mode, then runs toggle_git_mode
toggle_git_mode ==
  /\ toggles < MaxToggles
  /\ toggles' = toggles + 1
  /\ dialog' = "none"
  /\ err' = "none"
  /\ git_mode' = ~git_mode
  /\ UNCHANGED <<selection_mode, current_dir, git_repo, fs, loads>>
  /\ LET r == refresh_display(~git_mode, current_dir, git_repo, <<>>)
     IN /\ tree' = r.tree
        /\ serial' = r.serial
        /\ listbox' = r.listbox
        /\ curselection' = r.curselection
        /\ file_states' = r.file_states

\* the Auto-select children checkbutton
toggle_selection_mode ==
  /\ selection_mode' = ~selection_mode
  /\ dialog' = "none"
  /\ err' = "none"
  /\ UNCHANGED <<file_states, git_mode, current_dir, git_repo, tree, serial,
                 listbox, curselection, fs, loads, toggles>>

\* _handle_tree_click: item = 0 when no row lies under the pointer
handle_tree_click(item, column) ==
  /\ ~git_mode
  /\ dialog' = "none"
  /\ UNCHANGED <<selection_mode, git_mode, current_dir, git_repo, serial,
                 listbox, curselection, fs, loads, toggles>>
  /\ IF item = 0 \/ column # "#1"
     THEN /\ err' = "none"
          /\ UNCHANGED <<tree, file_states>>
     ELSE IF ~DictHas(file_states, item)
     THEN /\ err' = "KeyError"
          /\ UNCHANGED <<tree, file_states>>
     ELSE LET r == toggle_tree_selection(item,
                     [tree |-> tree, file_states |-> file_states])
          IN /\ err' = "none"
             /\ tree' = r.tree
             /\ file_states' = r.file_states

\* listbox.size(i): Listbox.size takes no argument
listbox_size_of(i) == [error |-> "TypeError", value |-> <<>>]

RECURSIVE list_selection_loop(_, _, _)
list_selection_loop(i, selected_indices, fstates) ==
  IF i >= Len(listbox) THEN [error |-> "none", file_states |-> fstates]
  ELSE LET path == listbox_size_of(i)
       IN IF path.error # "none"
          THEN [error |-> path.error, file_states |-> fstates]
          ELSE list_selection_loop(i + 1, selected_indices,
                 DictSet(fstates, path.value, i \in selected_indices))

\* a click on row i of the listbox flips the row in the widget's selection
\* and raises <<ListboxSelect>>, which runs _handle_list_selection
handle_list_selection(i) ==
  /\ git_mode
  /\ i \in 0..(Len(listbox) - 1)
  /\ curselection' = IF i \in curselection THEN curselection \ {i}
                                          ELSE curselection \cup {i}
  /\ LET r == list_selection_loop(0, curselection', file_states)
     IN /\ err' = r.error
        /\ file_states' = r.file_states
  /\ dialog' = "none"
  /\ UNCHANGED <<selection_mode, git_mode, current_dir, git_repo, tree,
                 serial, listbox, fs, loads, toggles>>

combine_files ==
  /\ UNCHANGED <<file_states, selection_mode, git_mode, current_dir,
                 git_repo, tree, serial, listbox, curselection, loads, toggles>>
  /\ LET sel == get_selected_files
     IN IF sel.error # "none"
        THEN /\ err' = sel.error
             /\ dialog' = "none"
             /\ fs' = fs
        ELSE IF sel.files = <<>>
        THEN /\ err' = "none"
             /\ dialog' = WarnCombine
             /\ fs' = fs
        ELSE LET r == combine_loop(sel.files,
                                   open_w(fs[OutputCombined].text))
             IN /\ err' = r.error
                /\ dialog' = IF r.error = "none" THEN InfoCombine ELSE "none"
                /\ fs' = [fs EXCEPT ![OutputCombined] = TextFile(r.text)]

export_selected_tree ==
  /\ UNCHANGED <<file_states, selection_mode, git_mode, current_dir,
                 git_repo, tree, serial, listbox, curselection, loads, toggles>>
  /\ LET sel == get_selected_files
     IN IF sel.error # "none"
        THEN /\ err' = sel.error
             /\ dialog' = "none"
             /\ fs' = fs
        ELSE IF sel.files = <<>>
        THEN /\ err' = "none"
             /\ dialog' = WarnExport
             /\ fs' = fs
        ELSE LET root_path == IF git_mode /\ git_repo.found
                              THEN git_repo.working_tree_dir
                              ELSE current_dir
             IN /\ err' = "none"
                /\ dialog' = InfoExport
                /\ fs' = [fs EXCEPT ![OutputTree] =
                            TextFile(generate_tree_string(root_path,
                                                          sel.files))]

Next ==
  \/ \E folder \in Folders \cup {<<>>} : load_directory(folder)
  \/ toggle_git_mode
  \/ toggle_selection_mode
  \/ \E item \in DOMAIN tree \cup {0}, column \in {"#0", "#1"} :
       handle_tree_click(item, column)
  \/ \E i \in 0..(Len(listbox) - 1) : handle_list_selection(i)
  \/ combine_files
  \/ export_selected_tree

Spec == Init /\ [][Next]_vars

\* the sessions in which the user never exports, and those in which the user
\* never combines: the claims about one output file are checked in the
\* sessions that leave the other alone
NextCombine ==
  \/ \E folder \in Folders \cup {<<>>} : load_directory(folder)
  \/ toggle_git_mode
  \/ toggle_selection_mode
  \/ \E item \in DOMAIN tree \cup {0}, column \in {"#0", "#1"} :
       handle_tree_click(item, column)
  \/ \E i \in 0..(Len(listbox) - 1) : handle_list_selection(i)
  \/ combine_files

NextExport ==
  \/ \E folder \in Folders \cup {<<>>} : load_directory(folder)
  \/ toggle_git_mode
  \/ toggle_selection_mode
  \/ \E item \in DOMAIN tree \cup {0}, column \in {"#0", "#1"} :
       handle_tree_click(item, column)
  \/ \E i \in 0..(Len(listbox) - 1) : handle_list_selection(i)
  \/ export_selected_tree

SpecCombine == Init /\ [][NextCombine]_vars

SpecExport == Init /\ [][NextExport]_vars

TypeOK ==
  /\ selection_mode \in BOOLEAN
  /\ git_mode \in BOOLEAN
  /\ current_dir \in Folders
  /\ dialog \in {"none", WarnCombine, WarnExport, InfoCombine, InfoExport}
  /\ err \in {"none", "TclError", "TypeError", "KeyError",
              "UnicodeDecodeError"}
  /\ loads \in 0..MaxLoads
  /\ toggles \in 0..MaxToggles

-----------------------------------------------------------------------------
(* Properties *)

\* the items the active display shows
Live == IF git_mode THEN {listbox[i] : i \in 1..Len(listbox)} ELSE DOMAIN tree

\* n lies below item in the tree
RECURSIVE IsUnder(_, _, _)
IsUnder(t, n, item) ==
  /\ t[n].parent # 0
  /\ \/ t[n].parent = item
     \/ IsUnder(t, t[n].parent, item)

root_path == IF git_mode /\ git_repo.found THEN git_repo.working_tree_dir
                                           ELSE current_dir

\* the reference renderer: the lines of the mapping reached by `at`
RECURSIVE reference_lines(_, _, _)
reference_lines(d, at, prefix) ==
  LET items == sorted(keys(d, at))
      RECURSIVE from(_)
      from(i) ==
        IF i > Len(items) THEN <<>>
        ELSE LET last == (i = Len(items))
                 item == items[i]
                 own == prefix \o (IF last THEN BranchLast ELSE BranchMid)
                               \o Chars(item)
                 below == IF keys(d, at \o <<item>>) = {} THEN <<>>
                          ELSE reference_lines(d, at \o <<item>>,
                                 prefix \o (IF last THEN PrefixLast
                                                    ELSE PrefixMid))
             IN <<own>> \o below \o from(i + 1)
  IN from(1)

reference_tree_string(root, paths) ==
  Join(LF, <<basename(root) \o <<"/">> >>
             \o reference_lines(tree_dict(root, paths), <<>>, <<>>))

LineCount(text) == 1 + Cardinality({i \in 1..Len(text) : text[i] = LF})

\* header + text + two newlines for each file, the texts taken from f
RECURSIVE Entries(_, _)
Entries(files, f) ==
  IF files = <<>> THEN <<>>
  ELSE Header(Head(files)) \o f[Head(files)].text \o <<LF, LF>>
         \o Entries(Tail(files), f)

\* steps of combine_files and of export_selected_tree; neither switches the
\* display mode, and naming that first keeps the comparison of file_states
\* to steps whose keys are of one kind
CombineStep == git_mode' = git_mode /\ combine_files
ExportStep == git_mode' = git_mode /\ export_selected_tree

\* C1: after a successful export, directory_tree.txt holds the root line
\* followed by exactly the lines of the reference renderer for the selected
\* files, at every nesting depth.
C1_TreeStringIsReference ==
  dialog = InfoExport =>
    fs[OutputTree].text =
      reference_tree_string(root_path, get_selected_files.files)

\* C2: with auto-select children enabled, a toggle of a tree node leaves
\* every descendant's flag equal to the node's new flag, which is the
\* negation of its old flag.
C2_ToggleCascades ==
  [][\A item \in DOMAIN tree :
       (selection_mode /\ ~git_mode' /\ handle_tree_click(item, "#1")) =>
         /\ DictGet(file_states', item) = ~DictGet(file_states, item)
         /\ \A n \in DOMAIN tree :
              IsUnder(tree, n, item) =>
                DictGet(file_states', n) = DictGet(file_states', item)]_vars

\* a directory with a grandchild was unchecked with auto-select on while its
\* grandchild had been checked: the node and all below it are now unchecked,
\* though another node is still checked
C2_Witness ==
  /\ selection_mode
  /\ ~git_mode
  /\ \E item \in DOMAIN tree :
       /\ \E n \in DOMAIN tree :
            IsUnder(tree, n, item) /\ tree[n].parent # item
       /\ DictHas(file_states, item)
       /\ DictGet(file_states, item)
       /\ tree[item].checked = CHECKED_CHAR
       /\ \A n \in DOMAIN tree :
            IsUnder(tree, n, item) =>
              DictGet(file_states, n) /\ tree[n].checked = CHECKED_CHAR

\* C3: after a successful export, the number of lines of directory_tree.txt
\* is the number of distinct path segments of the selected files, the root
\* included.
C3_LineCount ==
  dialog = InfoExport =>
    LineCount(fs[OutputTree].text) =
      1 + Cardinality(tree_dict(root_path, get_selected_files.files))

NoExistingFileSelected ==
  \A i \in 1..Len(file_states) :
    (file_states[i].selected /\ file_states[i].key \in Live) =>
      ~isfile(IF git_mode THEN root_path \o file_states[i].key
                          ELSE tree[file_states[i].key].path)

\* C5: when no existing file is selected, combine_files and
\* export_selected_tree show their warning and leave the file system as it
\* is.
C5_EmptySelectionWarns ==
  [][/\ (NoExistingFileSelected /\ CombineStep) =>
          (dialog' = WarnCombine /\ fs' = fs)
     /\ (NoExistingFileSelected /\ ExportStep) =>
          (dialog' = WarnExport /\ fs' = fs)]_vars

\* the handler that ran last was combine_files
LastWasCombine ==
  \/ dialog \in {InfoCombine, WarnCombine}
  \/ err = "UnicodeDecodeError"

\* C6: a combine_files that directly follows a combine_files leaves every
\* file, combined_code.txt included, as the first call left it.
C6_CombineTwice ==
  [][(LastWasCombine /\ CombineStep) => fs' = fs]_vars

\* a combine_files has completed on a selection that holds combined_code.txt
\* itself and another file
C6_Witness ==
  /\ dialog = InfoCombine
  /\ ~git_mode
  /\ \E m, n \in DOMAIN tree :
       /\ tree[m].path = OutputCombined
       /\ tree[n].path # OutputCombined
       /\ DictHas(file_states, m) /\ DictGet(file_states, m)
       /\ DictHas(file_states, n) /\ DictGet(file_states, n)
       /\ isfile(tree[n].path)
  /\ Len(fs[OutputCombined].text) > 0

\* C7: outside a repository, discovery ends with no repository and no
\* error; in Git Mode the listing is then empty, loading or switching adds
\* no entry to file_states, nothing is selected, and combine_files and
\* export_selected_tree show their warning and write nothing.
C7_NoRepository ==
  [][(git_mode' /\ Repo(current_dir') = NoRepo) =>
       /\ git_repo' = NoRepo
       /\ err' \in {"none"}
       /\ listbox' = <<>>
       /\ get_selected_files' = [error |-> "none", files |-> <<>>]
       /\ DictKeys(file_states') \subseteq DictKeys(file_states)
       /\ CombineStep => (dialog' = WarnCombine /\ fs' = fs)
       /\ ExportStep => (dialog' = WarnExport /\ fs' = fs)]_vars

\* Git Mode outside a repository, where combine_files has just reported the
\* empty selection
C7_Witness ==
  /\ git_mode
  /\ Repo(current_dir) = NoRepo
  /\ git_repo = NoRepo
  /\ listbox = <<>>
  /\ dialog = WarnCombine

\* the position in files of the first file that is not UTF-8 text
FirstBad(files) ==
  CHOOSE k \in 1..Len(files) :
    /\ ~fs[files[k]].utf8
    /\ \A j \in 1..(k - 1) : fs[files[j]].utf8

\* C8: when reading the k-th selected file fails, the error reaches the
\* caller, no success dialog is shown, and combined_code.txt holds the
\* complete entries of the first k-1 files followed by the header of the
\* k-th.
C8_PartialOutput ==
  err = "UnicodeDecodeError" =>
    LET files == get_selected_files.files
        k == FirstBad(files)
    IN /\ dialog = "none"
       /\ fs[OutputCombined].exists
       /\ fs[OutputCombined].text =
            Entries(SubSeq(files, 1, k - 1), fs) \o Header(files[k])

\* the read of the second selected file has failed
C8_Witness ==
  /\ err = "UnicodeDecodeError"
  /\ Len(get_selected_files.files) >= 2
  /\ FirstBad(get_selected_files.files) = 2

\* C9: every key of file_states is an item of the active display.
C9_KeysAreLive == DictKeys(file_states) \subseteq Live

\* C10: in Git Mode a change of the listbox selection runs without error
\* and leaves file_states[p] true exactly for the listed paths p whose index
\* is selected.
C10_ListSelection ==
  [][\A i \in 0..(Len(listbox) - 1) :
       (git_mode /\ git_mode' /\ handle_list_selection(i)) =>
         /\ err' = "none"
         /\ \A j \in 1..Len(listbox) :
              /\ DictHas(file_states', listbox[j])
              /\ DictGet(file_states', listbox[j]) =
                   ((j - 1) \in curselection')]_vars

====
